---- MODULE Spec2Model ----
(***************************************************************************)
(* Model of DarkOmap/metricsService:                                       *)
(*   - internal/storage/database_storage.go : DBStorage (persistent store) *)
(*     and its retry policy errorHanlder;                                  *)
(*   - internal/agent/agent.go : Agent.Run (sampler and reporter tasks).   *)
(*                                                                         *)
(* The specifications of this module share its variables:                  *)
(*   SpecRetry / FairRetry : one call of errorHanlder on an operation      *)
(*                           whose attempts fail or succeed freely;        *)
(*   Spec                  : concurrent callers of UpdateByMetrics and     *)
(*                           ValueByMetrics of a store made by             *)
(*                           NewDBStorage;                                 *)
(*   SpecBatch             : concurrent callers of Updates and             *)
(*                           ValueByMetrics of such a store;               *)
(*   SpecStore             : a caller of a store with retrying enabled,    *)
(*                           over a backend that can lose an answer;       *)
(*   SpecSchema            : NewDBStorage and its createTables;            *)
(*   SpecAgent / FairAgent : Agent.Run with its two goroutines;            *)
(*   SpecMain              : main of the single-threaded agent (part_000). *)
(***************************************************************************)
EXTENDS Integers, Naturals, Sequences, FiniteSets, TLC

(***************************************************************************)
(* Bounds of the model.                                                    *)
(***************************************************************************)
MaxRetry == 3      \* largest retryCount of SpecRetry
MaxDelay == 2      \* largest duration and durationPolicy of SpecRetry
MaxOps   == 3      \* Spec: store operations started in one behaviour
MaxDelta == 2      \* Spec: counter deltas are 1..MaxDelta
MaxGauge == 2      \* Spec: gauge values are 1..MaxGauge
MaxBatchOps == 2   \* SpecBatch: store operations started in one behaviour
MaxBatch == 2      \* SpecBatch: longest batch given to Updates
MaxPolls == 1      \* SpecAgent: sampler ticks in one behaviour
MaxPushes == 2     \* SpecAgent: reports started in one behaviour
MaxFields == 2     \* SpecAgent: fields of runtime.MemStats that are modelled
MaxStoreRetry == 1 \* SpecStore: largest retryCount of the store
MaxStoreOps == 2   \* SpecStore: store operations started in one behaviour
MaxBuilds == 2     \* SpecSchema: NewDBStorage calls made one after the other
MaxInterval == 3   \* SpecMain: largest pollInterval and reportInterval
MaxIter == 6       \* SpecMain: iterations of the loop of main

VARIABLES
    cfg,      \* the DBStorage fields retryCount, duration, durationPolicy
    h,        \* SpecRetry: the position of the running errorHanlder call
    trace,    \* SpecRetry: kinds of the errors the attempts produced, in order
    gauges,   \* Spec: relation gauges, Name -> Value (committed rows)
    counters, \* Spec: relation counters, Name -> Delta (committed rows)
    cl,       \* Spec: per caller, the store method it is in and its last result
    gLog,     \* Spec: per name, the gauge values committed, in commit order
    cLog,     \* Spec: per name, the counter deltas committed, in commit order
    okSum,    \* Spec: per name, sum of the deltas of the counter
              \*       UpdateByMetrics calls that returned without error
    ops,      \* Spec: number of store operations started
    sig,      \* SpecAgent: ctx of Run is cancelled (SIGINT or SIGTERM arrived)
    egDone,   \* SpecAgent: egCtx of the errgroup is cancelled
    task,     \* SpecAgent: per goroutine of Run, where it is
    taskRet,  \* SpecAgent: per goroutine, what it returned to the errgroup
    runRet,   \* SpecAgent: what Run returned
    pollCount,\* SpecAgent: a.pollCount; SpecMain: the local pollCount
    pushes,   \* SpecAgent: number of sendReport calls started;
              \* SpecMain: number of reports pushed
    failed,   \* SpecAgent: number of SendBatch and SendCounter calls that failed
    late,     \* SpecAgent: per goroutine, timer branches taken after its
              \*            context was cancelled
    ms,       \* SpecAgent: a.ms; per field, the number of the snapshot write
              \*            that wrote it (0 = the read of NewAgent)
    report,   \* SpecAgent: the locals of the running sendReport call
    recv,     \* SpecAgent: the pushes the collector has received, in order
    tables,   \* SpecSchema: the relations that exist in the backend
    build,    \* SpecSchema: the running or last NewDBStorage call
    timeToPush,     \* SpecMain: the local timeToPush of main
    reportInterval, \* SpecMain: the flag reportInterval
    pollInterval,   \* SpecMain: the flag pollInterval
    mainPc          \* SpecMain: where main is

reportVars == <<ms, report, recv>>

schemaVars == <<tables, build>>

mainVars == <<timeToPush, reportInterval, pollInterval, mainPc>>

agentVars == <<sig, egDone, task, taskRet, runRet, pollCount, pushes, failed, late,
               reportVars>>

(***************************************************************************)
(* A goroutine of Agent.Run is at                                          *)
(*   "select"      : in the select of its loop; fired = the channel of     *)
(*                   time.After is ready; armed = the context was not yet  *)
(*                   cancelled when the select was entered, so that the    *)
(*                   select blocks and its timer can fire (both intervals  *)
(*                   are positive: a timer just made is not ready)         *)
(*   "getMs"       : reporter, in memstats.GetMemStatsForServer(&a.ms)     *)
(*   "sendBatch"   : reporter, in a.client.SendBatch of sendReport         *)
(*   "sendCounter" : reporter, in a.client.SendCounter of sendReport       *)
(*   "poll"        : sampler, at runtime.ReadMemStats(&a.ms)               *)
(*   "add"         : sampler, at a.pollCount.Add(1)                        *)
(*   "returned"    : the function given to eg.Go has returned              *)
(***************************************************************************)
Tasks == {"reporter", "sampler"}

\* a goroutine entering the select of its loop; done = its context is cancelled
AtSelect(done) == [pc |-> "select", armed |-> ~done, fired |-> FALSE]

At(pc) == [pc |-> pc, armed |-> FALSE, fired |-> FALSE]

\* the fields of runtime.MemStats, in the order GetMemStatsForServer reads them
MsFields == 1..MaxFields

NoVal == -1

\* sendReport: msForServer (gauges = the fields copied so far, random = the
\* entry "RandomValue" is set) and the value of a.pollCount.Load() of line 81
NoReport == [gauges |-> <<>>, random |-> FALSE, loaded |-> NoVal]

\* what the collector receives from a.client.SendBatch(ctx, msForServer) of
\* report number n
BatchMsg(n, r) == [push |-> "SendBatch", n |-> n, gauges |-> r.gauges,
                   random |-> r.random, name |-> "", val |-> NoVal]

\* what the collector receives from a.client.SendCounter(ctx, "PollCount", v)
\* of report number n
CounterMsg(n, v) == [push |-> "SendCounter", n |-> n, gauges |-> <<>>,
                     random |-> FALSE, name |-> "PollCount", val |-> v]

\* the two relations of the store
Relations == {"gauges", "counters"}

(***************************************************************************)
(* A NewDBStorage call (with its createTables).                            *)
(*   pc     : "idle", "begin" (pgx.BeginFunc is about to begin), "check"   *)
(*            (the SELECT on information_schema.tables), "create" (the     *)
(*            CREATE TABLE), "commit" (BeginFunc is about to commit)       *)
(*   rel    : the relation the check or the creation is about              *)
(*   te     : the local variable te                                        *)
(*   had    : the relations that existed when the call was made            *)
(*   issued : the relations whose CREATE statement this call has sent      *)
(*   prev   : issued, of the call before this one                          *)
(*   failed : the backend call of this construction that failed            *)
(*   ret    : "ok" (dbs, nil), "err" (nil, error)                          *)
(*   n      : number of NewDBStorage calls made                            *)
(***************************************************************************)
IdleBuild == [pc |-> "idle", rel |-> "gauges", te |-> FALSE, had |-> {},
              issued |-> <<>>, prev |-> <<>>, failed |-> "none",
              ret |-> "none", n |-> 0]

\* NewDBStorage has returned and is not part of the behaviour
SchemaParked == tables = Relations /\ build = IdleBuild

\* main of the single-threaded agent is not part of the behaviour
MainParked ==
    /\ timeToPush = 0 /\ reportInterval = 0 /\ pollInterval = 0
    /\ mainPc = "off"

\* the agent is not part of the behaviour
AgentParked ==
    /\ sig = FALSE /\ egDone = FALSE
    /\ task = [t \in Tasks |-> At("returned")]
    /\ taskRet = [t \in Tasks |-> "none"]
    /\ runRet = "none"
    /\ pollCount = 0 /\ pushes = 0 /\ failed = 0
    /\ late = [t \in Tasks |-> 0]
    /\ ms = [f \in MsFields |-> 0]
    /\ report = NoReport
    /\ recv = <<>>

(***************************************************************************)
(* Errors.  An error carries the number of the attempt that produced it,   *)
(* so that "the error of the last attempt" can be told from an earlier one.*)
(*   kind "nil"   : no error                                               *)
(*   kind "conn"  : *pgconn.PgError with a connection-exception code       *)
(*   kind "norows": pgx.ErrNoRows, the error of Scan when no row was found *)
(*   kind "other" : any other error                                        *)
(***************************************************************************)
NoErr == [kind |-> "nil", at |-> 0]

MkErr(k, n) == IF k = "nil" THEN NoErr ELSE [kind |-> k, at |-> n]

ErrKinds == {"nil", "conn", "other"}

\* pgx.ErrNoRows: made by errors.New, it is not a *pgconn.PgError
ErrNoRows(n) == [kind |-> "norows", at |-> n]

\* errors.As(err, &tError) && pgerrcode.IsConnectionException(tError.Code)
IsConnectionException(err) == err.kind = "conn"

(***************************************************************************)
(* type DBStorage struct { conn; retryCount; duration; durationPolicy }    *)
(***************************************************************************)
DBStorage(rc, d, p) == [retryCount |-> rc, duration |-> d, durationPolicy |-> p]

(***************************************************************************)
(* errorHanlder, as a state machine over the record                        *)
(*   pc       : "call" (first handelFunc()), "sleep" (time.Sleep of the    *)
(*              loop), "retry" (handelFunc() of the loop), "done" (return) *)
(*   i        : the loop variable                                          *)
(*   duration : the local variable duration                                *)
(*   err      : the local variable err (the value returned at "done")      *)
(*   calls    : number of invocations of handelFunc so far                 *)
(*   slept    : the arguments of time.Sleep so far, in seconds             *)
(***************************************************************************)
ehStart == [pc |-> "call", i |-> 0, duration |-> 0, err |-> NoErr,
            calls |-> 0, slept |-> <<>>]

\* ehFirst with the increment applied before the first sleep
ehFirstBumped(dbs, e, err) ==
    LET e1 == [e EXCEPT !.err = err, !.calls = @ + 1] IN
    IF err.kind = "nil" \/ dbs.retryCount <= 0
    THEN [e1 EXCEPT !.pc = "done"]
    ELSE IF IsConnectionException(err)
         THEN [e1 EXCEPT !.pc = "sleep", !.i = 0,
                         !.duration = dbs.duration + dbs.durationPolicy]
         ELSE [e1 EXCEPT !.pc = "done"]

\* lines 345-355: the first attempt has returned err
ehFirst(dbs, e, err) ==
    LET e1 == [e EXCEPT !.err = err, !.calls = @ + 1] IN
    IF err.kind = "nil" \/ dbs.retryCount <= 0
    THEN [e1 EXCEPT !.pc = "done"]
    ELSE IF IsConnectionException(err)
         THEN IF 0 < dbs.retryCount
              THEN [e1 EXCEPT !.pc = "sleep", !.i = 0, !.duration = dbs.duration]
              ELSE [e1 EXCEPT !.pc = "done", !.i = 0, !.duration = dbs.duration]
         ELSE [e1 EXCEPT !.pc = "done"]

\* line 356: time.Sleep(time.Duration(duration) * time.Second)
ehSleep(e) == [e EXCEPT !.pc = "retry", !.slept = Append(@, e.duration)]

\* ehRetry leaving the loop only on success (no classification of the error)
ehRetryAnyError(dbs, e, err) ==
    LET e1 == [e EXCEPT !.err = err, !.calls = @ + 1] IN
    IF err.kind = "nil"
    THEN [e1 EXCEPT !.pc = "done"]
    ELSE LET e2 == [e1 EXCEPT !.duration = @ + dbs.durationPolicy, !.i = @ + 1] IN
         IF e2.i < dbs.retryCount
         THEN [e2 EXCEPT !.pc = "sleep"]
         ELSE [e2 EXCEPT !.pc = "done"]

\* ehRetry with the loop bound off by one (i <= retryCount)
ehRetryOneMore(dbs, e, err) ==
    LET e1 == [e EXCEPT !.err = err, !.calls = @ + 1] IN
    IF ~IsConnectionException(err)
    THEN [e1 EXCEPT !.pc = "done"]
    ELSE LET e2 == [e1 EXCEPT !.duration = @ + dbs.durationPolicy, !.i = @ + 1] IN
         IF e2.i <= dbs.retryCount
         THEN [e2 EXCEPT !.pc = "sleep"]
         ELSE [e2 EXCEPT !.pc = "done"]

\* lines 358-365: the attempt of one loop iteration has returned err
ehRetry(dbs, e, err) ==
    LET e1 == [e EXCEPT !.err = err, !.calls = @ + 1] IN
    IF ~IsConnectionException(err)
    THEN [e1 EXCEPT !.pc = "done"]
    ELSE LET e2 == [e1 EXCEPT !.duration = @ + dbs.durationPolicy, !.i = @ + 1] IN
         IF e2.i < dbs.retryCount
         THEN [e2 EXCEPT !.pc = "sleep"]
         ELSE [e2 EXCEPT !.pc = "done"]

\* an attempt (first or of the loop) has returned err
ehAfter(dbs, e, err) ==
    IF e.pc = "call" THEN ehFirst(dbs, e, err) ELSE ehRetry(dbs, e, err)

(***************************************************************************)
(* The persistent store (DBStorage) over its backend.                      *)
(*                                                                         *)
(* dbs.conn is used by all callers of the store at once, so it stands for  *)
(* a pool of connections: every QueryRow runs and commits on its own, and  *)
(* every SendBatch runs its queued statements in one implicit transaction  *)
(* of its own.  A call to the backend either takes effect and answers      *)
(* ("ok"), or fails without effect with a connection exception ("conn") or *)
(* with another error ("other").  SpecStore adds the outcome in which the  *)
(* backend commits the call and the caller is given a connection exception *)
(* ("lost": the connection fails after the commit and before the answer).  *)
(***************************************************************************)
Names   == {"a", "b"}
Callers == {"c1", "c2"}
Deltas      == 1..MaxDelta
GaugeValues == 1..MaxGauge

\* models.Metrics: ID, MType and the pointer its kind uses (Delta of a
\* counter, Value of a gauge): has = the pointer is not nil, num = *pointer
Metric(id, t, has, num) == [id |-> id, mtype |-> t, has |-> has, num |-> num]

Metrics ==
    {Metric(n, "counter", TRUE, d) : n \in Names, d \in Deltas} \cup
    {Metric(n, "gauge", TRUE, v) : n \in Names, v \in GaugeValues} \cup
    {Metric(n, t, FALSE, 0) : n \in Names, t \in {"counter", "gauge", "bad"}}

\* the argument of ValueByMetrics: only ID and MType are read
Keys == {Metric(n, t, FALSE, 0) : n \in Names, t \in {"counter", "gauge", "bad"}}

\* the metrics the batches of SpecBatch are made of: a counter, a gauge, a
\* metric of unknown kind and a counter whose Delta is nil
BatchMetrics ==
    {Metric("a", "counter", TRUE, 1), Metric("a", "gauge", TRUE, 1),
     Metric("b", "bad", FALSE, 0), Metric("b", "counter", FALSE, 0)}

Batches == UNION {[1..k -> BatchMetrics] : k \in 1..MaxBatch}

\* the reads of SpecBatch
BatchKeys == {Metric("a", "counter", FALSE, 0), Metric("a", "gauge", FALSE, 0)}

EmptyTable == [n \in {} |-> 0]
EmptyLog   == [n \in Names |-> <<>>]
ZeroMap    == [n \in Names |-> 0]

\* NewDBStorage, line 32: dbs := &DBStorage{conn: conn}
NewDBStorage == DBStorage(0, 0, 0)

\* the counter upsert with SET Delta = EXCLUDED.Delta
upsertCounterReplace(tb, id, d) ==
    [n \in DOMAIN tb \cup {id} |-> IF n = id THEN d ELSE tb[n]]

\* INSERT INTO counters ... ON CONFLICT (Name) DO UPDATE
\*   SET Delta = counters.Delta + EXCLUDED.Delta
upsertCounter(tb, id, d) ==
    [n \in DOMAIN tb \cup {id} |->
        IF n = id THEN (IF id \in DOMAIN tb THEN tb[id] + d ELSE d) ELSE tb[n]]

\* the gauge upsert with ON CONFLICT (Name) DO NOTHING
upsertGaugeKeep(tb, id, v) ==
    [n \in DOMAIN tb \cup {id} |-> IF n \in DOMAIN tb THEN tb[n] ELSE v]

\* INSERT INTO gauges ... ON CONFLICT (Name) DO UPDATE SET Value = EXCLUDED.Value
upsertGauge(tb, id, v) ==
    [n \in DOMAIN tb \cup {id} |-> IF n = id THEN v ELSE tb[n]]

\* updateValid without the nil checks of lines 138 and 165
updateValidKindOnly(m) == m.mtype \in {"counter", "gauge"}

\* UpdateByMetrics reaches the backend: known kind, and the pointer is not nil
updateValid(m) == m.mtype \in {"counter", "gauge"} /\ m.has

\* ValueByMetrics reaches the backend: known kind
valueValid(m) == m.mtype \in {"counter", "gauge"}

\* Updates, the loop that queues the statements: *val.Value and *val.Delta
\* are dereferenced without a nil check
batchPanics(metrics) ==
    \E i \in 1..Len(metrics) :
        metrics[i].mtype \in {"gauge", "counter"} /\ ~metrics[i].has

\* Updates, the loop that queues the statements: the switch has no default
isQueued(m) == m.mtype \in {"gauge", "counter"}

batchQueue(metrics) == SelectSeq(metrics, isQueued)

\* a batch seen through the validation of UpdateByMetrics
batchShape(metrics) ==
    IF \A i \in 1..Len(metrics) : updateValid(metrics[i]) THEN "valid"
    ELSE IF \E i \in 1..Len(metrics) : updateValid(metrics[i]) THEN "mixed"
    ELSE "invalid"

\* applyBatch with the counters queued with queryGauges
RECURSIVE applyBatchSameQuery(_, _, _)
applyBatchSameQuery(g, c, stmts) ==
    IF stmts = <<>> THEN [g |-> g, c |-> c]
    ELSE LET s == Head(stmts) IN
         applyBatchSameQuery(upsertGauge(g, s.id, s.num), c, Tail(stmts))

\* the statements of a batch, run in order in its implicit transaction
RECURSIVE applyBatch(_, _, _)
applyBatch(g, c, stmts) ==
    IF stmts = <<>> THEN [g |-> g, c |-> c]
    ELSE LET s == Head(stmts) IN
         IF s.mtype = "gauge"
         THEN applyBatch(upsertGauge(g, s.id, s.num), c, Tail(stmts))
         ELSE applyBatch(g, upsertCounter(c, s.id, s.num), Tail(stmts))

\* the numbers a sequence of statements writes to (id, kind), in order
RECURSIVE written(_, _, _)
written(stmts, id, t) ==
    IF stmts = <<>> THEN <<>>
    ELSE LET s == Head(stmts) IN
         (IF s.id = id /\ s.mtype = t THEN <<s.num>> ELSE <<>>)
             \o written(Tail(stmts), id, t)

RECURSIVE SumSeq(_)
SumSeq(s) == IF s = <<>> THEN 0 ELSE Head(s) + SumSeq(Tail(s))

(***************************************************************************)
(* A caller of the store.                                                  *)
(*   pc      : "idle", "begin" (pgx.BeginFunc is about to begin),          *)
(*             "run" (inside errorHanlder), "commit" (BeginFunc is about   *)
(*             to commit)                                                  *)
(*   op      : "update" (UpdateByMetrics), "value" (ValueByMetrics),       *)
(*             "updates" (Updates)                                         *)
(*   arg     : the metric given to UpdateByMetrics or ValueByMetrics       *)
(*   shape   : what Updates was given: "valid" (every metric has a known   *)
(*             kind and the number of its kind), "mixed" (valid metrics    *)
(*             and malformed ones), "invalid" (malformed metrics only)     *)
(*   stmts   : the statements queued in the pgx.Batch of Updates           *)
(*   eh      : the errorHanlder call of this operation                     *)
(*   applied : how many times the backend committed the statement(s) of    *)
(*             this call (for ValueByMetrics: how many times it ran the    *)
(*             SELECT and answered)                                        *)
(*   ret     : the result of the last call: status "ok", "err" or "panic", *)
(*             the error, the value returned, and the number of commits    *)
(*             to the (name, kind) so far when the backend answered        *)
(***************************************************************************)
NoRet == [status |-> "none", err |-> NoErr, val |-> 0, seen |-> 0]

Ret(st, err, val, seen) == [status |-> st, err |-> err, val |-> val, seen |-> seen]

IdleCaller == [pc |-> "idle", op |-> "none", arg |-> <<>>, shape |-> "valid",
               stmts |-> <<>>, eh |-> ehStart, applied |-> 0, ret |-> NoRet]

Entered(op, arg) == [IdleCaller EXCEPT !.op = op, !.arg = arg]

\* the error a backend outcome hands to the caller
OutcomeErr(o, n) ==
    IF o = "ok" THEN NoErr ELSE MkErr(IF o = "lost" THEN "conn" ELSE o, n)

\* the backend has committed the call
Commits(o) == o \in {"ok", "lost"}

Outcomes == {"ok", "conn", "other"}

OutcomesLost == Outcomes \cup {"lost"}

\* Scan of a row that is not there, taken for a connection exception
scanRowTransient(tb, id, n) == IF id \in DOMAIN tb THEN NoErr ELSE MkErr("conn", n)

\* QueryRow(...).Scan(&c) of "SELECT ... WHERE Name = $1" on a backend that
\* answers: nil when the row is there, pgx.ErrNoRows when it is not
scanRow(tb, id, n) == IF id \in DOMAIN tb THEN NoErr ELSE ErrNoRows(n)

storeVars == <<gauges, counters, cl, gLog, cLog, okSum, ops>>

vars == <<cfg, h, trace, gauges, counters, cl, gLog, cLog, okSum, ops,
          sig, egDone, task, taskRet, runRet, pollCount, pushes, failed, late,
          ms, report, recv, tables, build,
          timeToPush, reportInterval, pollInterval, mainPc>>

\* the store is not part of the behaviour
StoreParked ==
    /\ gauges = EmptyTable /\ counters = EmptyTable
    /\ cl = [c \in Callers |-> IdleCaller]
    /\ gLog = EmptyLog /\ cLog = EmptyLog
    /\ okSum = ZeroMap
    /\ ops = 0

\* a store made by NewDBStorage over a backend whose relations are empty
Init ==
    /\ cfg = NewDBStorage
    /\ h = ehStart /\ trace = <<>>
    /\ StoreParked
    /\ AgentParked
    /\ SchemaParked
    /\ MainParked

\* UpdateByMetrics, up to the call of errorHanlder (max bounds the number of
\* operations of the behaviour)
StartUpdate(c, m, max) ==
    /\ cl[c].pc = "idle" /\ ops < max
    /\ ops' = ops + 1
    /\ cl' = [cl EXCEPT ![c] =
                IF updateValid(m)
                THEN [Entered("update", <<m>>) EXCEPT !.pc = "run"]
                ELSE [Entered("update", <<m>>) EXCEPT
                          !.ret = Ret("err", MkErr("other", 0), 0, 0)]]
    /\ UNCHANGED <<agentVars, cfg, schemaVars, mainVars, h, trace, gauges, counters, gLog, cLog, okSum>>

\* one attempt of the upsert of UpdateByMetrics, and what errorHanlder and
\* the method do with its result (outs = the outcomes of the backend)
AttemptUpdate(c, outs) ==
    LET r == cl[c]
        m == r.arg[1]
    IN
    /\ r.pc = "run" /\ r.op = "update" /\ r.eh.pc \in {"call", "retry"}
    /\ \E o \in outs :
         LET commit == Commits(o)
             isC == m.mtype = "counter"
             newC == IF commit /\ isC THEN upsertCounter(counters, m.id, m.num)
                     ELSE counters
             newG == IF commit /\ ~isC THEN upsertGauge(gauges, m.id, m.num)
                     ELSE gauges
             newCLog == IF commit /\ isC
                        THEN [cLog EXCEPT ![m.id] = Append(@, m.num)] ELSE cLog
             newGLog == IF commit /\ ~isC
                        THEN [gLog EXCEPT ![m.id] = Append(@, m.num)] ELSE gLog
             e2 == ehAfter(cfg, r.eh, OutcomeErr(o, r.eh.calls + 1))
             r2 == [r EXCEPT !.eh = e2,
                             !.applied = IF commit THEN @ + 1 ELSE @]
             scanned == IF isC THEN newC[m.id] ELSE newG[m.id]
             seen == IF isC THEN Len(newCLog[m.id]) ELSE Len(newGLog[m.id])
         IN
         /\ counters' = newC /\ gauges' = newG
         /\ cLog' = newCLog /\ gLog' = newGLog
         /\ okSum' = IF o = "ok" /\ isC
                     THEN [okSum EXCEPT ![m.id] = @ + m.num] ELSE okSum
         /\ cl' = [cl EXCEPT ![c] =
                     IF e2.pc # "done" THEN r2
                     ELSE IF e2.err.kind = "nil"
                          THEN [r2 EXCEPT !.pc = "idle",
                                          !.ret = Ret("ok", NoErr, scanned, seen)]
                          ELSE [r2 EXCEPT !.pc = "idle",
                                          !.ret = Ret("err", e2.err, 0, 0)]]
    /\ UNCHANGED <<agentVars, cfg, schemaVars, mainVars, h, trace, ops>>

\* ValueByMetrics, up to the call of errorHanlder
StartValue(c, m, max) ==
    /\ cl[c].pc = "idle" /\ ops < max
    /\ ops' = ops + 1
    /\ cl' = [cl EXCEPT ![c] =
                IF valueValid(m)
                THEN [Entered("value", <<m>>) EXCEPT !.pc = "run"]
                ELSE [Entered("value", <<m>>) EXCEPT
                          !.ret = Ret("err", MkErr("other", 0), 0, 0)]]
    /\ UNCHANGED <<agentVars, cfg, schemaVars, mainVars, h, trace, gauges, counters, gLog, cLog, okSum>>

\* one attempt of the SELECT of ValueByMetrics
AttemptValue(c) ==
    LET r == cl[c]
        m == r.arg[1]
        tb == IF m.mtype = "counter" THEN counters ELSE gauges
        log == IF m.mtype = "counter" THEN cLog ELSE gLog
    IN
    /\ r.pc = "run" /\ r.op = "value" /\ r.eh.pc \in {"call", "retry"}
    /\ \E o \in Outcomes :
         LET err == IF o = "ok" THEN scanRow(tb, m.id, r.eh.calls + 1)
                    ELSE OutcomeErr(o, r.eh.calls + 1)
             e2 == ehAfter(cfg, r.eh, err)
             r2 == [r EXCEPT !.eh = e2,
                             !.applied = IF o = "ok" THEN @ + 1 ELSE @]
         IN
         cl' = [cl EXCEPT ![c] =
                  IF e2.pc # "done" THEN r2
                  ELSE IF e2.err.kind = "nil"
                       THEN [r2 EXCEPT !.pc = "idle",
                                       !.ret = Ret("ok", NoErr, tb[m.id], Len(log[m.id]))]
                       ELSE [r2 EXCEPT !.pc = "idle",
                                       !.ret = Ret("err", e2.err, 0, 0)]]
    /\ UNCHANGED <<agentVars, cfg, schemaVars, mainVars, h, trace, gauges, counters, gLog, cLog, okSum, ops>>

\* Updates, the loop that fills the pgx.Batch
StartUpdates(c, b, max) ==
    /\ cl[c].pc = "idle" /\ ops < max
    /\ ops' = ops + 1
    /\ cl' = [cl EXCEPT ![c] =
                IF batchPanics(b)
                THEN [Entered("updates", <<>>) EXCEPT
                          !.shape = batchShape(b),
                          !.ret = Ret("panic", MkErr("other", 0), 0, 0)]
                ELSE [Entered("updates", <<>>) EXCEPT
                          !.shape = batchShape(b),
                          !.pc = "begin", !.stmts = batchQueue(b)]]
    /\ UNCHANGED <<agentVars, cfg, schemaVars, mainVars, h, trace, gauges, counters, gLog, cLog, okSum>>

\* pgx.BeginFunc: dbs.conn.Begin; when it fails the function is not run
BeginTx(c) ==
    LET r == cl[c] IN
    /\ r.pc = "begin"
    /\ \E o \in Outcomes :
         cl' = [cl EXCEPT ![c] =
                  IF o = "ok" THEN [r EXCEPT !.pc = "run"]
                  ELSE [r EXCEPT !.pc = "idle",
                                 !.ret = Ret("err", MkErr(o, 0), 0, 0)]]
    /\ UNCHANGED <<agentVars, cfg, schemaVars, mainVars, h, trace, gauges, counters, gLog, cLog, okSum, ops>>

\* one attempt of dbs.conn.SendBatch(ctx, batch).Close(): the batch is sent
\* on dbs.conn, not on the transaction tx that BeginFunc opened
AttemptBatch(c, outs) ==
    LET r == cl[c] IN
    /\ r.pc = "run" /\ r.op = "updates" /\ r.eh.pc \in {"call", "retry"}
    /\ \E o \in outs :
         LET commit == Commits(o)
             tb == IF commit THEN applyBatch(gauges, counters, r.stmts)
                   ELSE [g |-> gauges, c |-> counters]
             e2 == ehAfter(cfg, r.eh, OutcomeErr(o, r.eh.calls + 1))
             r2 == [r EXCEPT !.eh = e2,
                             !.applied = IF commit THEN @ + 1 ELSE @]
         IN
         /\ gauges' = tb.g /\ counters' = tb.c
         /\ gLog' = IF commit
                    THEN [n \in Names |-> gLog[n] \o written(r.stmts, n, "gauge")]
                    ELSE gLog
         /\ cLog' = IF commit
                    THEN [n \in Names |-> cLog[n] \o written(r.stmts, n, "counter")]
                    ELSE cLog
         /\ cl' = [cl EXCEPT ![c] =
                     IF e2.pc # "done" THEN r2
                     ELSE IF e2.err.kind = "nil"
                          THEN [r2 EXCEPT !.pc = "commit"]
                          ELSE [r2 EXCEPT !.pc = "idle",
                                          !.ret = Ret("err", e2.err, 0, 0)]]
    /\ UNCHANGED <<agentVars, cfg, schemaVars, mainVars, h, trace, okSum, ops>>

\* pgx.BeginFunc: tx.Commit of the transaction it opened; Updates returns nil
\* or the wrapped error
CommitTx(c) ==
    LET r == cl[c] IN
    /\ r.pc = "commit"
    /\ \E o \in Outcomes :
         cl' = [cl EXCEPT ![c] =
                  [r EXCEPT !.pc = "idle",
                            !.ret = IF o = "ok" THEN Ret("ok", NoErr, 0, 0)
                                    ELSE Ret("err", MkErr(o, 0), 0, 0)]]
    /\ UNCHANGED <<agentVars, cfg, schemaVars, mainVars, h, trace, gauges, counters, gLog, cLog, okSum, ops>>

\* time.Sleep inside the errorHanlder call of a store operation; it is
\* reached only by a store whose retryCount is positive (SpecStore), which
\* NewDBStorage does not make
StoreSleep(c) ==
    /\ cl[c].pc = "run" /\ cl[c].eh.pc = "sleep"
    /\ cl' = [cl EXCEPT ![c].eh = ehSleep(@)]
    /\ UNCHANGED <<agentVars, cfg, schemaVars, mainVars, h, trace, gauges, counters, gLog, cLog, okSum, ops>>

\* Spec: the callers use UpdateByMetrics and ValueByMetrics
Next ==
    \/ \E c \in Callers, m \in Metrics : StartUpdate(c, m, MaxOps)
    \/ \E c \in Callers : AttemptUpdate(c, Outcomes)
    \/ \E c \in Callers, m \in Keys : StartValue(c, m, MaxOps)
    \/ \E c \in Callers : AttemptValue(c)

Spec == Init /\ [][Next]_vars

\* SpecBatch: the callers use Updates and ValueByMetrics
NextBatch ==
    \/ \E c \in Callers, b \in Batches : StartUpdates(c, b, MaxBatchOps)
    \/ \E c \in Callers : BeginTx(c)
    \/ \E c \in Callers : AttemptBatch(c, Outcomes)
    \/ \E c \in Callers : CommitTx(c)
    \/ \E c \in Callers, m \in BatchKeys : StartValue(c, m, MaxBatchOps)
    \/ \E c \in Callers : AttemptValue(c)

SpecBatch == Init /\ [][NextBatch]_vars

(***************************************************************************)
(* SpecStore: a store whose retry fields are set (retryCount > 0; the      *)
(* fields are unexported, so code of package storage has set them), used   *)
(* by a caller of UpdateByMetrics, ValueByMetrics and Updates,              *)
(* over a backend that may also commit a call and report a connection      *)
(* exception for it.                                                       *)
(***************************************************************************)
StoreConfigs == {DBStorage(rc, 1, 1) : rc \in 1..MaxStoreRetry}

\* the arguments of UpdateByMetrics in SpecStore: a counter and a gauge of
\* every name, and the three malformed metrics
StoreMetrics ==
    {Metric(n, t, TRUE, 1) : n \in Names, t \in {"counter", "gauge"}} \cup
    {Metric("a", t, FALSE, 0) : t \in {"counter", "gauge", "bad"}}

\* the arguments of ValueByMetrics in SpecStore
StoreKeys == {Metric("a", t, FALSE, 0) : t \in {"counter", "gauge", "bad"}}

InitStore ==
    /\ cfg \in StoreConfigs
    /\ h = ehStart /\ trace = <<>>
    /\ StoreParked
    /\ AgentParked
    /\ SchemaParked
    /\ MainParked

\* the callers of SpecStore: the interleavings of two callers are those of
\* Spec and SpecBatch
StoreCallers == {"c1"}

NextStore ==
    \/ \E c \in StoreCallers, m \in StoreMetrics : StartUpdate(c, m, MaxStoreOps)
    \/ \E c \in StoreCallers : AttemptUpdate(c, OutcomesLost)
    \/ \E c \in StoreCallers, m \in StoreKeys : StartValue(c, m, MaxStoreOps)
    \/ \E c \in StoreCallers : AttemptValue(c)
    \/ \E c \in StoreCallers, b \in Batches : StartUpdates(c, b, MaxStoreOps)
    \/ \E c \in StoreCallers : BeginTx(c)
    \/ \E c \in StoreCallers : AttemptBatch(c, OutcomesLost)
    \/ \E c \in StoreCallers : CommitTx(c)
    \/ \E c \in StoreCallers : StoreSleep(c)

SpecStore == InitStore /\ [][NextStore]_vars

(***************************************************************************)
(* SpecSchema: NewDBStorage and createTables, called one after the other   *)
(* against a backend that starts with any of the two relations.            *)
(***************************************************************************)
\* the second existence check asking for the first relation again
checkedNameGauges(rel) == "gauges"

\* lines 73 and 94: the table_name the existence check asks for
checkedName(rel) == rel

\* what follows the check or the creation of a relation: lines 92-94 after
\* gauges, return nil (and the commit of BeginFunc) after counters
afterRel(b) ==
    IF b.rel = "gauges" THEN [b EXCEPT !.pc = "check", !.rel = "counters", !.te = FALSE]
    ELSE [b EXCEPT !.pc = "commit"]

\* the construction fails at step s: BeginFunc rolls back, createTables
\* returns the error, NewDBStorage returns nil and the wrapped error
buildFails(b, s) == [b EXCEPT !.pc = "idle", !.failed = s, !.ret = "err"]

InitSchema ==
    /\ cfg = NewDBStorage
    /\ h = ehStart /\ trace = <<>>
    /\ StoreParked
    /\ AgentParked
    /\ MainParked
    /\ tables \in SUBSET Relations
    /\ build = IdleBuild

\* NewDBStorage, line 32, and createTables up to pgx.BeginFunc
StartBuild ==
    /\ build.pc = "idle" /\ build.n < MaxBuilds
    /\ build' = [IdleBuild EXCEPT !.pc = "begin", !.had = tables,
                                  !.prev = build.issued, !.n = build.n + 1]
    /\ UNCHANGED <<cfg, h, trace, storeVars, agentVars, mainVars, tables>>

\* pgx.BeginFunc, line 69: dbs.conn.Begin; when it fails the function is not run
BuildBegin ==
    /\ build.pc = "begin"
    /\ \E o \in Outcomes :
          build' = IF o = "ok" THEN [build EXCEPT !.pc = "check"]
                   ELSE buildFails(build, "begin")
    /\ UNCHANGED <<cfg, h, trace, storeVars, agentVars, mainVars, tables>>

\* lines 72-80 and 92-101: the existence check, through errorHanlder (the
\* store under construction has retryCount 0: one attempt)
BuildCheck ==
    /\ build.pc = "check"
    /\ \E o \in Outcomes :
          LET e == ehFirst(cfg, ehStart, OutcomeErr(o, 1))
              te == checkedName(build.rel) \in tables
          IN
          /\ e.pc = "done"
          /\ build' = IF e.err.kind # "nil" THEN buildFails(build, "check")
                      ELSE IF ~te THEN [build EXCEPT !.pc = "create", !.te = te]
                      ELSE afterRel([build EXCEPT !.te = te])
    /\ UNCHANGED <<cfg, h, trace, storeVars, agentVars, mainVars, tables>>

\* lines 81-89 and 102-110: CREATE TABLE and CREATE UNIQUE INDEX, sent on
\* dbs.conn as one simple-protocol query, through errorHanlder; the backend
\* refuses to create a relation that exists
BuildCreate ==
    /\ build.pc = "create"
    /\ \E o \in Outcomes :
          LET res == IF o = "ok" /\ build.rel \in tables THEN "other" ELSE o
              e == ehFirst(cfg, ehStart, OutcomeErr(res, 1))
              b1 == [build EXCEPT !.issued = Append(@, build.rel)]
          IN
          /\ e.pc = "done"
          /\ tables' = IF res = "ok" THEN tables \cup {build.rel} ELSE tables
          /\ build' = IF e.err.kind # "nil" THEN buildFails(b1, "create")
                      ELSE afterRel(b1)
    /\ UNCHANGED <<cfg, h, trace, storeVars, agentVars, mainVars>>

\* pgx.BeginFunc: tx.Commit after the function returned nil; NewDBStorage
\* returns the store, or nil and the error (lines 34-38)
BuildCommit ==
    /\ build.pc = "commit"
    /\ \E o \in Outcomes :
          build' = IF o = "ok" THEN [build EXCEPT !.pc = "idle", !.ret = "ok"]
                   ELSE buildFails(build, "commit")
    /\ UNCHANGED <<cfg, h, trace, storeVars, agentVars, mainVars, tables>>

NextSchema ==
    \/ StartBuild
    \/ BuildBegin
    \/ BuildCheck
    \/ BuildCreate
    \/ BuildCommit

SpecSchema == InitSchema /\ [][NextSchema]_vars

(***************************************************************************)
(* SpecMain: main of the single-threaded agent (part_000).                 *)
(*   mainPc : "loop" (line 21), "push" (lines 22-42), "poll" (lines        *)
(*            45-49), "panic" (a push failed: panic(err.Error()))          *)
(* pollCount is the local pollCount, pushes the number of reports pushed.  *)
(* The loop is followed for MaxIter iterations, far from the overflow of   *)
(* the uint timeToPush.                                                    *)
(***************************************************************************)
\* the values of the flags pollInterval and reportInterval
Intervals == 1..MaxInterval

\* line 21: if timeToPush == reportInterval
timeIsUp(t, r) == t = r

InitMain ==
    /\ cfg = NewDBStorage
    /\ h = ehStart /\ trace = <<>>
    /\ StoreParked
    /\ SchemaParked
    /\ sig = FALSE /\ egDone = FALSE
    /\ task = [t \in Tasks |-> At("returned")]
    /\ taskRet = [t \in Tasks |-> "none"]
    /\ runRet = "none"
    /\ failed = 0
    /\ late = [t \in Tasks |-> 0]
    /\ ms = [f \in MsFields |-> 0]
    /\ report = NoReport
    /\ recv = <<>>
    /\ reportInterval \in Intervals /\ pollInterval \in Intervals
    /\ timeToPush = 0 /\ pollCount = 0 /\ pushes = 0
    /\ mainPc = "loop"

mainFrame ==
    UNCHANGED <<cfg, h, trace, storeVars, schemaVars, sig, egDone, task, taskRet,
                runRet, failed, late, reportVars, reportInterval, pollInterval>>

\* line 21
MainTest ==
    /\ mainPc = "loop"
    /\ mainPc' = IF timeIsUp(timeToPush, reportInterval) THEN "push" ELSE "poll"
    /\ UNCHANGED <<timeToPush, pollCount, pushes>>
    /\ mainFrame

\* lines 22-42: PushStats, SendCounter and SendGauge; a failure of one of
\* them panics; timeToPush = 0
MainPush ==
    /\ mainPc = "push"
    /\ \E ok \in BOOLEAN :
          /\ mainPc' = (IF ok THEN "poll" ELSE "panic")
          /\ pushes' = (IF ok THEN pushes + 1 ELSE pushes)
          /\ timeToPush' = (IF ok THEN 0 ELSE timeToPush)
    /\ UNCHANGED pollCount
    /\ mainFrame

\* lines 45-49: ReadMemStats, time.Sleep, timeToPush += pollInterval,
\* pollCount++
MainPoll ==
    /\ mainPc = "poll" /\ pollCount < MaxIter
    /\ timeToPush' = timeToPush + pollInterval
    /\ pollCount' = pollCount + 1
    /\ mainPc' = "loop"
    /\ UNCHANGED pushes
    /\ mainFrame

NextMain == MainTest \/ MainPush \/ MainPoll

SpecMain == InitMain /\ [][NextMain]_vars

(***************************************************************************)
(* The agent: Agent.Run and its two goroutines.                            *)
(***************************************************************************)
\* the sampler waiting on a context that is never cancelled
doneChBackground(t) == IF t = "reporter" THEN egDone ELSE FALSE

\* the context whose Done channel the select of a goroutine reads: egCtx, the
\* context of the errgroup, in the reporter (line 39); ctx, its parent, in
\* the sampler (line 53)
waitsOn(t) == IF t = "reporter" THEN "egCtx" ELSE "ctx"

\* the Done channel of a context is closed
Cancelled(c) == IF c = "egCtx" THEN egDone ELSE sig

\* the Done channel of the select: egCtx.Done() in the reporter (line 39),
\* ctx.Done() in the sampler (line 53)
doneCh(t) == Cancelled(waitsOn(t))

\* NewAgent, then Run up to eg.Wait(): the snapshot is seeded by the read of
\* NewAgent (write number 0), both goroutines are in their select
InitAgent ==
    /\ cfg = NewDBStorage /\ h = ehStart /\ trace = <<>>
    /\ StoreParked
    /\ SchemaParked
    /\ MainParked
    /\ sig = FALSE /\ egDone = FALSE
    /\ task = [t \in Tasks |-> AtSelect(FALSE)]
    /\ taskRet = [t \in Tasks |-> "none"]
    /\ runRet = "none"
    /\ pollCount = 0 /\ pushes = 0 /\ failed = 0
    /\ late = [t \in Tasks |-> 0]
    /\ ms = [f \in MsFields |-> 0]
    /\ report = NoReport
    /\ recv = <<>>

\* SIGINT or SIGTERM: signal.NotifyContext cancels ctx, and with it egCtx
Signal ==
    /\ ~sig /\ runRet = "none"
    /\ sig' = TRUE /\ egDone' = TRUE
    /\ UNCHANGED <<task, taskRet, runRet, pollCount, pushes, failed, late, reportVars>>
    /\ UNCHANGED <<cfg, schemaVars, mainVars, h, trace, storeVars>>

\* the timer of time.After fires while the select blocks
TimerFires(t) ==
    /\ task[t].pc = "select" /\ task[t].armed /\ ~task[t].fired
    /\ IF t = "reporter" THEN pushes < MaxPushes ELSE pollCount < MaxPolls
    /\ task' = [task EXCEPT ![t].fired = TRUE]
    /\ UNCHANGED <<sig, egDone, taskRet, runRet, pollCount, pushes, failed, late, reportVars>>
    /\ UNCHANGED <<cfg, schemaVars, mainVars, h, trace, storeVars>>

\* the select takes the timer case: the reporter calls sendReport (line 38),
\* the sampler goes on to line 51
TakeTimer(t) ==
    /\ task[t].pc = "select" /\ task[t].fired
    /\ task' = [task EXCEPT ![t] = At(IF t = "reporter" THEN "getMs" ELSE "poll")]
    /\ pushes' = IF t = "reporter" THEN pushes + 1 ELSE pushes
    /\ report' = IF t = "reporter" THEN NoReport ELSE report
    /\ late' = IF doneCh(t) THEN [late EXCEPT ![t] = @ + 1] ELSE late
    /\ UNCHANGED <<sig, egDone, taskRet, runRet, pollCount, failed, ms, recv>>
    /\ UNCHANGED <<cfg, schemaVars, mainVars, h, trace, storeVars>>

\* the select takes the Done case: the goroutine returns nil
TakeDone(t) ==
    /\ task[t].pc = "select" /\ doneCh(t)
    /\ task' = [task EXCEPT ![t] = At("returned")]
    /\ taskRet' = [taskRet EXCEPT ![t] = "nil"]
    /\ UNCHANGED <<sig, egDone, runRet, pollCount, pushes, failed, late, reportVars>>
    /\ UNCHANGED <<cfg, schemaVars, mainVars, h, trace, storeVars>>

\* sendReport, lines 69-70: memstats.GetMemStatsForServer(&a.ms) copies the
\* fields of a.ms into the map msForServer, one field after the other and
\* without any lock; after the last one msForServer["RandomValue"] is set
ReadMsField(f) ==
    /\ task["reporter"].pc = "getMs"
    /\ f = Len(report.gauges) + 1
    /\ report' = [report EXCEPT !.gauges = Append(@, ms[f]),
                                !.random = (f = MaxFields)]
    /\ task' = [task EXCEPT !["reporter"] =
                   IF f = MaxFields THEN At("sendBatch") ELSE At("getMs")]
    /\ UNCHANGED <<sig, egDone, taskRet, runRet, pollCount, pushes, failed, late, ms, recv>>
    /\ UNCHANGED <<cfg, schemaVars, mainVars, h, trace, storeVars>>

\* SendBatch of sendReport returns and a failure makes the goroutine return it
SendBatchReturnsFatal ==
    /\ task["reporter"].pc = "sendBatch"
    /\ \E ok \in BOOLEAN :
          /\ failed' = (IF ok THEN failed ELSE failed + 1)
          /\ task' = [task EXCEPT !["reporter"] =
                         IF ok THEN At("sendCounter") ELSE At("returned")]
          /\ taskRet' = (IF ok THEN taskRet ELSE [taskRet EXCEPT !["reporter"] = "err"])
          /\ egDone' = (egDone \/ ~ok)
          /\ recv' = (IF ok THEN Append(recv, BatchMsg(pushes, report)) ELSE recv)
    /\ report' = [report EXCEPT !.loaded = pollCount]
    /\ UNCHANGED <<sig, runRet, pollCount, pushes, late, ms>>
    /\ UNCHANGED <<cfg, schemaVars, mainVars, h, trace, storeVars>>

\* sendReport, lines 72-81: a.client.SendBatch returns: the collector has
\* received the batch when it returns nil; an error is logged; then
\* a.pollCount.Load() gives the argument of a.client.SendCounter
SendBatchReturns ==
    /\ task["reporter"].pc = "sendBatch"
    /\ \E ok \in BOOLEAN :
          /\ failed' = (IF ok THEN failed ELSE failed + 1)
          /\ recv' = (IF ok THEN Append(recv, BatchMsg(pushes, report)) ELSE recv)
    /\ report' = [report EXCEPT !.loaded = pollCount]
    /\ task' = [task EXCEPT !["reporter"] = At("sendCounter")]
    /\ UNCHANGED <<sig, egDone, taskRet, runRet, pollCount, pushes, late, ms>>
    /\ UNCHANGED <<cfg, schemaVars, mainVars, h, trace, storeVars>>

\* SendCounterReturns of an agent that sends the samples made since the last
\* report: the counter is reset once the collector has it
SendCounterReturnsReset ==
    /\ task["reporter"].pc = "sendCounter"
    /\ \E ok \in BOOLEAN :
          /\ failed' = (IF ok THEN failed ELSE failed + 1)
          /\ recv' = (IF ok THEN Append(recv, CounterMsg(pushes, report.loaded))
                      ELSE recv)
          /\ pollCount' = (IF ok THEN 0 ELSE pollCount)
    /\ task' = [task EXCEPT !["reporter"] = AtSelect(egDone)]
    /\ UNCHANGED <<sig, egDone, taskRet, runRet, pushes, late, ms, report>>
    /\ UNCHANGED <<cfg, schemaVars, mainVars, h, trace, storeVars>>

\* sendReport, lines 81-90: a.client.SendCounter returns: the collector has
\* received the counter when it returns nil; an error is logged; sendReport
\* returns and the loop enters its select again
SendCounterReturns ==
    /\ task["reporter"].pc = "sendCounter"
    /\ \E ok \in BOOLEAN :
          /\ failed' = (IF ok THEN failed ELSE failed + 1)
          /\ recv' = (IF ok THEN Append(recv, CounterMsg(pushes, report.loaded))
                      ELSE recv)
    /\ task' = [task EXCEPT !["reporter"] = AtSelect(egDone)]
    /\ UNCHANGED <<sig, egDone, taskRet, runRet, pollCount, pushes, late, ms, report>>
    /\ UNCHANGED <<cfg, schemaVars, mainVars, h, trace, storeVars>>

\* the sampler, line 51: runtime.ReadMemStats(&a.ms).  The runtime fills *m
\* while the world is stopped, so the other goroutine sees the write as one
\* step, wherever it was stopped
SamplerPoll ==
    /\ task["sampler"].pc = "poll"
    /\ ms' = [f \in MsFields |-> ms[f] + 1]
    /\ task' = [task EXCEPT !["sampler"] = At("add")]
    /\ UNCHANGED <<sig, egDone, taskRet, runRet, pollCount, pushes, failed, late,
                   report, recv>>
    /\ UNCHANGED <<cfg, schemaVars, mainVars, h, trace, storeVars>>

\* the sampler, line 52: a.pollCount.Add(1), and the loop enters its select
\* again
PollCountAdd ==
    /\ task["sampler"].pc = "add"
    /\ pollCount' = pollCount + 1
    /\ task' = [task EXCEPT !["sampler"] = AtSelect(sig)]
    /\ UNCHANGED <<sig, egDone, taskRet, runRet, pushes, failed, late, reportVars>>
    /\ UNCHANGED <<cfg, schemaVars, mainVars, h, trace, storeVars>>

\* eg.Wait() returns when both goroutines have returned, with the first
\* non-nil error; Run wraps it or returns nil (lines 60-65)
RunWait ==
    /\ runRet = "none"
    /\ \A t \in Tasks : task[t].pc = "returned" /\ taskRet[t] # "none"
    /\ runRet' = (IF \E t \in Tasks : taskRet[t] = "err" THEN "err" ELSE "nil")
    /\ egDone' = TRUE
    /\ UNCHANGED <<sig, task, taskRet, pollCount, pushes, failed, late, reportVars>>
    /\ UNCHANGED <<cfg, schemaVars, mainVars, h, trace, storeVars>>

ReporterStep ==
    \/ TakeTimer("reporter") \/ TakeDone("reporter")
    \/ (\E f \in MsFields : ReadMsField(f))
    \/ SendBatchReturns \/ SendCounterReturns

SamplerStep ==
    TakeTimer("sampler") \/ TakeDone("sampler") \/ SamplerPoll \/ PollCountAdd

NextAgent ==
    \/ Signal
    \/ \E t \in Tasks : TimerFires(t)
    \/ \E t \in Tasks : TakeTimer(t)
    \/ \E t \in Tasks : TakeDone(t)
    \/ \E f \in MsFields : ReadMsField(f)
    \/ SendBatchReturns
    \/ SendCounterReturns
    \/ SamplerPoll
    \/ PollCountAdd
    \/ RunWait

SpecAgent == InitAgent /\ [][NextAgent]_vars

\* a goroutine that can run does run, the pushes of the client return, and
\* eg.Wait() returns once both goroutines have; nothing forces a signal or a timer
FairAgent ==
    SpecAgent /\ WF_vars(ReporterStep) /\ WF_vars(SamplerStep) /\ WF_vars(RunWait)

(***************************************************************************)
(* SpecRetry: one call of errorHanlder.  The operation is any handelFunc:  *)
(* each attempt returns nil, a connection exception or another error.      *)
(***************************************************************************)
Configs == {DBStorage(rc, d, p) : rc \in 0..MaxRetry, d \in 0..MaxDelay, p \in 0..MaxDelay}

InitRetry ==
    /\ cfg \in Configs
    /\ h = ehStart
    /\ trace = <<>>
    /\ StoreParked
    /\ AgentParked
    /\ SchemaParked
    /\ MainParked

HandlerCall ==
    /\ h.pc = "call"
    /\ \E k \in ErrKinds :
          /\ h' = ehFirst(cfg, h, MkErr(k, h.calls + 1))
          /\ trace' = Append(trace, k)
    /\ UNCHANGED <<cfg, schemaVars, mainVars, storeVars, agentVars>>

HandlerSleep ==
    /\ h.pc = "sleep"
    /\ h' = ehSleep(h)
    /\ UNCHANGED <<cfg, schemaVars, mainVars, trace, storeVars, agentVars>>

HandlerRetry ==
    /\ h.pc = "retry"
    /\ \E k \in ErrKinds :
          /\ h' = ehRetry(cfg, h, MkErr(k, h.calls + 1))
          /\ trace' = Append(trace, k)
    /\ UNCHANGED <<cfg, schemaVars, mainVars, storeVars, agentVars>>

NextRetry == HandlerCall \/ HandlerSleep \/ HandlerRetry

SpecRetry == InitRetry /\ [][NextRetry]_vars

\* a goroutine inside errorHanlder keeps running: handelFunc and time.Sleep return
FairRetry == SpecRetry /\ WF_vars(NextRetry)

(***************************************************************************)
(* Properties of errorHanlder (SpecRetry, FairRetry).                      *)
(***************************************************************************)
\* the first k attempts all failed with a connection exception
AllConn(s, k) == k <= Len(s) /\ \A j \in 1..k : s[j] = "conn"

\* the sleeps d, d+p, ..., d+(k-1)p
LinearSleeps(dbs, k) == [j \in 1..k |-> dbs.duration + (j - 1) * dbs.durationPolicy]

\* C5: with retryCount = N > 0, when the first k attempts (1 <= k <= N) fail
\* with a connection exception the handler goes on to attempt k+1 after
\* sleeping d, d+p, ..., d+(k-1)p, and when attempt k+1 succeeds it has been
\* invoked exactly k+1 times, has slept exactly those durations in that
\* order, and returns nil.
C5_RetryThenSuccess ==
    \A k \in 1..cfg.retryCount :
       /\ (Len(trace) = k /\ AllConn(trace, k)) =>
              /\ h.pc \in {"sleep", "retry"}
              /\ h.calls = k
              /\ h.slept = LinearSleeps(cfg, IF h.pc = "retry" THEN k ELSE k - 1)
       /\ (Len(trace) = k + 1 /\ AllConn(trace, k) /\ trace[k + 1] = "nil") =>
              /\ h.pc = "done"
              /\ h.calls = k + 1
              /\ h.slept = LinearSleeps(cfg, k)
              /\ h.err = NoErr

\* N = 3, d = 1, p = 1, k = 3: four invocations, sleeps 1, 2, 3
C5_Witness ==
    /\ cfg = DBStorage(3, 1, 1)
    /\ trace = <<"conn", "conn", "conn", "nil">>
    /\ h.pc = "done" /\ h.calls = 4 /\ h.slept = <<1, 2, 3>> /\ h.err = NoErr

\* C6: an attempt (the first or a retry) that fails with an error that is
\* not a connection exception is the last one: the handler is done, returns
\* that very error, and has slept only before the earlier retries; when it is
\* the first attempt the operation was invoked once and nothing was slept,
\* whatever retryCount is.
C6_PermanentStops ==
    \A j \in 1..Len(trace) :
       trace[j] = "other" =>
          /\ j = Len(trace)
          /\ h.pc = "done"
          /\ h.calls = j
          /\ h.err = [kind |-> "other", at |-> j]
          /\ Len(h.slept) = j - 1
          /\ (j = 1 => h.slept = <<>>)

\* a retry (not the first attempt) failed permanently, with retrying enabled
C6_Witness ==
    /\ cfg.retryCount = 3
    /\ trace = <<"conn", "other">>
    /\ h.pc = "done" /\ h.calls = 2 /\ h.err = [kind |-> "other", at |-> 2]

\* C7: every call of errorHanlder returns, after at most retryCount+1
\* invocations; when every attempt failed with a connection exception there
\* were exactly retryCount+1 invocations and the error returned is the one of
\* the last attempt; with retryCount = 0 there is one invocation, no sleep,
\* and its result is what is returned.
C7_Terminates ==
    /\ <>(h.pc = "done")
    /\ [](h.calls <= cfg.retryCount + 1)
    /\ []((h.pc = "done" /\ AllConn(trace, Len(trace))) =>
            /\ h.calls = cfg.retryCount + 1
            /\ h.err = [kind |-> "conn", at |-> cfg.retryCount + 1])
    /\ []((h.pc = "done" /\ cfg.retryCount = 0) =>
            /\ h.calls = 1
            /\ h.slept = <<>>
            /\ h.err = MkErr(trace[1], 1))

\* all attempts failed transiently with retryCount = 3: four invocations
C7_Witness ==
    /\ cfg.retryCount = 3
    /\ h.pc = "done" /\ h.calls = 4
    /\ AllConn(trace, 4)
    /\ h.err = [kind |-> "conn", at |-> 4]

(***************************************************************************)
(* Properties of the persistent store (Spec, SpecBatch).                   *)
(***************************************************************************)
\* caller c has returned from a call of op on a metric of kind t without error
Returned(c, op, t) ==
    /\ cl[c].pc = "idle" /\ cl[c].op = op /\ cl[c].ret.status = "ok"
    /\ cl[c].arg[1].mtype = t

\* the sum of the first k elements of s
PrefixSum(s, k) == SumSeq(SubSeq(s, 1, k))

\* C1: whatever the interleaving of the callers, a counter has a row exactly
\* when an UpdateByMetrics call on it succeeded, its stored value is the sum
\* of the deltas of the successful calls, each successful UpdateByMetrics
\* call returned the value the counter had right after its own delta was
\* added, and a ValueByMetrics call returned the sum of the deltas committed
\* before it.
C1_CounterSum ==
    /\ \A n \in Names :
          /\ (n \in DOMAIN counters) <=> (cLog[n] # <<>>)
          /\ n \in DOMAIN counters => counters[n] = okSum[n]
          /\ okSum[n] = SumSeq(cLog[n])
    /\ \A c \in Callers :
          LET m == cl[c].arg[1]
              ret == cl[c].ret
          IN
          /\ Returned(c, "update", "counter") =>
                /\ ret.seen \in 1..Len(cLog[m.id])
                /\ cLog[m.id][ret.seen] = m.num
                /\ ret.val = PrefixSum(cLog[m.id], ret.seen)
          /\ Returned(c, "value", "counter") =>
                /\ ret.seen \in 1..Len(cLog[m.id])
                /\ ret.val = PrefixSum(cLog[m.id], ret.seen)

\* deltas 1 then 2 by two callers, then a read: the second update and the
\* read both return 3
C1_Witness ==
    /\ cLog["a"] = <<1, 2>>
    /\ Returned("c2", "update", "counter") /\ cl["c2"].arg[1].id = "a"
    /\ cl["c2"].ret.val = 3
    /\ Returned("c1", "value", "counter") /\ cl["c1"].arg[1].id = "a"
    /\ cl["c1"].ret.val = 3

\* C2: a gauge has a row exactly when an update of it was committed, its
\* stored value is the value of the update committed last, a successful
\* UpdateByMetrics call returned the value it wrote, and a ValueByMetrics
\* call, whatever it ran concurrently with, returned the value of the update
\* committed last before it, which is a value some update wrote.
C2_GaugeLast ==
    /\ \A n \in Names :
          /\ (n \in DOMAIN gauges) <=> (gLog[n] # <<>>)
          /\ n \in DOMAIN gauges => gauges[n] = gLog[n][Len(gLog[n])]
    /\ \A c \in Callers :
          LET m == cl[c].arg[1]
              ret == cl[c].ret
          IN
          /\ Returned(c, "update", "gauge") =>
                /\ ret.seen \in 1..Len(gLog[m.id])
                /\ gLog[m.id][ret.seen] = m.num
                /\ ret.val = m.num
          /\ Returned(c, "value", "gauge") =>
                /\ ret.seen \in 1..Len(gLog[m.id])
                /\ ret.val = gLog[m.id][ret.seen]

\* values 1 then 2 by two callers, then a read that returns 2
C2_Witness ==
    /\ gLog["a"] = <<1, 2>>
    /\ Returned("c2", "update", "gauge") /\ cl["c2"].arg[1].id = "a"
    /\ cl["c2"].ret.val = 2
    /\ Returned("c1", "value", "gauge") /\ cl["c1"].arg[1].id = "a"
    /\ cl["c1"].ret.val = 2

\* C3: when Updates has returned from a batch that queued statements, either
\* those statements are all committed and it returned nil, or none of them
\* is committed and it returned an error.
C3_AllOrNothing ==
    \A c \in Callers :
       (cl[c].pc = "idle" /\ cl[c].op = "updates" /\ cl[c].stmts # <<>>
            /\ cl[c].ret.status \in {"ok", "err"}) =>
          \/ cl[c].ret.status = "ok" /\ cl[c].applied = 1
          \/ cl[c].ret.status = "err" /\ cl[c].applied = 0

\* C4: Updates given a batch with a malformed metric among valid ones never
\* has a statement of the batch committed, and does not return nil.
C4_MalformedRejected ==
    \A c \in Callers :
       (cl[c].op = "updates" /\ cl[c].shape = "mixed") =>
          /\ cl[c].applied = 0
          /\ cl[c].ret.status # "ok"

\* C8: an operation of a store made by NewDBStorage that returns a
\* connection exception to its caller was retried: the backend call was
\* made more than once.
C8_TransientRetried ==
    \A c \in Callers :
       (cfg = NewDBStorage /\ cl[c].pc = "idle" /\ cl[c].ret.status = "err"
            /\ IsConnectionException(cl[c].ret.err)) =>
          cl[c].eh.calls >= 2

(***************************************************************************)
(* Properties of the agent (SpecAgent, FairAgent).                         *)
(***************************************************************************)
\* C9: a failed push (SendBatch or SendCounter returning an error) leaves the
\* reporter in its loop (it goes on to SendCounter, or back to its select
\* with a fresh timer unless the scope is cancelled), does not cancel ctx or
\* egCtx, does not touch the sampler and makes nothing return; no goroutine
\* and not Run ever returns an error, and the scope is cancelled, the
\* reporter and the sampler return, only after a signal.
C9_PushFailureNotFatal ==
    /\ [](/\ runRet # "err"
          /\ \A t \in Tasks : taskRet[t] # "err"
          /\ egDone => sig
          /\ \A t \in Tasks : task[t].pc = "returned" => sig)
    /\ [][(failed' > failed) =>
            /\ task'["reporter"].pc \in {"sendCounter", "select"}
            /\ (task'["reporter"].pc = "select" =>
                    task'["reporter"].armed = ~egDone)
            /\ egDone' = egDone /\ sig' = sig
            /\ task'["sampler"] = task["sampler"]
            /\ runRet' = runRet /\ taskRet' = taskRet]_vars

\* both pushes of the first report failed and the reporter is in the push of
\* its next tick; nothing is cancelled and the sampler is running
C9_Witness ==
    /\ failed = 2 /\ pushes = 2
    /\ task["reporter"].pc = "sendBatch"
    /\ ~egDone /\ ~sig
    /\ task["sampler"].pc # "returned"
    /\ runRet = "none"

\* C10: once a signal has cancelled ctx, both goroutines return nil and Run
\* returns nil; a goroutine takes at most one timer branch after its context
\* was cancelled (the timer of the select it was blocked in), and once it has
\* returned it stays returned: no further sample, no further push.
C10_CancelStops ==
    /\ sig ~> (/\ \A t \in Tasks : task[t].pc = "returned" /\ taskRet[t] = "nil"
               /\ runRet = "nil")
    /\ [](\A t \in Tasks : late[t] <= 1)
    /\ [][/\ task["sampler"].pc = "returned" =>
               (task'["sampler"].pc = "returned" /\ pollCount' = pollCount)
          /\ task["reporter"].pc = "returned" =>
               (task'["reporter"].pc = "returned" /\ pushes' = pushes)]_vars

\* after a sample and a push, a signal has made both goroutines and Run return
C10_Witness ==
    /\ sig /\ runRet = "nil"
    /\ \A t \in Tasks : task[t].pc = "returned" /\ taskRet[t] = "nil"
    /\ pollCount >= 1 /\ pushes >= 1

\* C11: the two goroutines of Run wait on the same cancellation scope, the
\* one the errgroup cancels when a goroutine returns a non-nil error: a
\* cancelled egCtx is seen by the select of either goroutine; and Run returns
\* an error only when a goroutine returned one.
C11_SharedScope ==
    /\ \A t, u \in Tasks : waitsOn(t) = waitsOn(u)
    /\ \A t \in Tasks : Cancelled("egCtx") => doneCh(t)
    /\ runRet = "err" => \E t \in Tasks : taskRet[t] = "err"

\* C12: the gauge values of one report, while sendReport collects them and
\* in the batch the collector receives, all come from one snapshot write.
C12_NoTornSnapshot ==
    /\ \A i, j \in 1..Len(report.gauges) : report.gauges[i] = report.gauges[j]
    /\ \A k \in 1..Len(recv) :
          \A i, j \in 1..Len(recv[k].gauges) : recv[k].gauges[i] = recv[k].gauges[j]

\* report number n is over: sendReport has returned
ReportDone(n) ==
    n < pushes \/ (n = pushes /\ task["reporter"].pc \in {"select", "returned"})

\* C13: a.pollCount is the number of sampler ticks completed (ReadMemStats
\* calls made, less the tick in progress), so 0 at first; a step changes it
\* only by adding 1, and only the sampler's step at line 52 does; the value
\* sendReport loads is the counter at that moment; each report pushes at
\* most one counter, named PollCount, and the values the collector receives
\* from successive reports never decrease; a fresh agent whose first report
\* loads the counter after one tick and whose pushes succeed has the
\* collector receive a batch with every snapshot gauge and RandomValue and
\* then exactly one Counter PollCount of value 1.
C13_PollCount ==
    /\ [](pollCount = ms[1] - (IF task["sampler"].pc = "add" THEN 1 ELSE 0))
    /\ [][pollCount' # pollCount =>
             /\ pollCount' = pollCount + 1
             /\ task["sampler"].pc = "add" /\ task'["sampler"].pc = "select"]_vars
    /\ [][report'.loaded # report.loaded =>
             (report'.loaded = NoVal \/ report'.loaded = pollCount)]_vars
    /\ [](\A i \in 1..Len(recv) :
             recv[i].push = "SendCounter" =>
                /\ recv[i].name = "PollCount"
                /\ recv[i].val \in 0..pollCount
                /\ \A j \in 1..(i - 1) :
                      recv[j].push = "SendCounter" =>
                         (recv[j].n < recv[i].n /\ recv[j].val <= recv[i].val))
    /\ []((ReportDone(1) /\ pushes = 1 /\ failed = 0 /\ report.loaded = 1) =>
             /\ Len(recv) = 2
             /\ recv[1].push = "SendBatch" /\ recv[1].n = 1
             /\ Len(recv[1].gauges) = MaxFields /\ recv[1].random
             /\ recv[2] = CounterMsg(1, 1))

\* one tick, then the first report, both pushes received: PollCount is 1
C13_Witness ==
    /\ pollCount = 1 /\ pushes = 1 /\ failed = 0
    /\ task["reporter"].pc = "select"
    /\ Len(recv) = 2
    /\ recv[1].push = "SendBatch" /\ recv[1].gauges = [f \in MsFields |-> 1]
    /\ recv[2] = CounterMsg(1, 1)

\* the collector has received push p of report number n
Got(n, p) == \E i \in 1..Len(recv) : recv[i].n = n /\ recv[i].push = p

\* C14: when a report is over the collector has received either its gauges
\* (snapshot and RandomValue) and its PollCount counter, or none of them.
C14_OneBatch ==
    \A n \in 1..pushes :
       ReportDone(n) => (Got(n, "SendBatch") <=> Got(n, "SendCounter"))

(***************************************************************************)
(* Properties of a store with retrying enabled (SpecStore).                *)
(***************************************************************************)
\* a metric UpdateByMetrics must refuse: unknown kind, or the Delta of a
\* counter or the Value of a gauge is absent
Malformed(m) == m.mtype \notin {"counter", "gauge"} \/ ~m.has

\* C15: UpdateByMetrics given a malformed metric (kind neither counter nor
\* gauge, or counter without Delta, or gauge without Value) returns an error
\* at once: errorHanlder is not entered, so no backend statement is issued,
\* nothing is slept and nothing retried, and the step leaves every gauge and
\* every counter as it was.
C15_InvalidUpdate ==
    /\ [](\A c \in Callers :
             (cl[c].op = "update" /\ Malformed(cl[c].arg[1])) =>
                /\ cl[c].pc = "idle"
                /\ cl[c].ret.status = "err" /\ cl[c].ret.err.kind = "other"
                /\ cl[c].eh = ehStart
                /\ cl[c].applied = 0)
    /\ [][\A c \in Callers :
             (cl'[c] # cl[c] /\ cl'[c].op = "update" /\ Malformed(cl'[c].arg[1])) =>
                /\ gauges' = gauges /\ counters' = counters
                /\ gLog' = gLog /\ cLog' = cLog]_vars

\* a counter without Delta was refused by a store that holds counter a
C15_Witness ==
    /\ cfg.retryCount > 0
    /\ "a" \in DOMAIN counters
    /\ cl["c1"].op = "update" /\ cl["c1"].pc = "idle"
    /\ cl["c1"].arg[1] = Metric("a", "counter", FALSE, 0)
    /\ cl["c1"].ret.status = "err"

\* C16: ValueByMetrics of a known kind returns an error and no value while
\* no update of (name, kind) has been committed; when it returns a value,
\* at least one update had been committed and the value is the stored value
\* at that moment (the sum of the deltas, or the gauge committed last); once
\* the backend has answered the SELECT, with a row or without, the call is
\* over: a not-found answer is returned as pgx.ErrNoRows and not retried,
\* whatever retryCount is; and no step of ValueByMetrics changes a gauge or
\* a counter.
C16_ValueByMetrics ==
    /\ [](\A c \in Callers :
             cl[c].op = "value" =>
                LET m == cl[c].arg[1]
                    ret == cl[c].ret
                    log == IF m.mtype = "counter" THEN cLog ELSE gLog
                IN
                /\ (cl[c].pc = "idle" /\ m.mtype \in {"counter", "gauge"}
                      /\ log[m.id] = <<>>) =>
                        (ret.status = "err" /\ ret.val = 0)
                /\ ret.status = "ok" =>
                      /\ m.mtype \in {"counter", "gauge"}
                      /\ ret.seen \in 1..Len(log[m.id])
                      /\ ret.val = IF m.mtype = "counter"
                                   THEN PrefixSum(log[m.id], ret.seen)
                                   ELSE log[m.id][ret.seen]
                /\ cl[c].applied <= 1
                /\ cl[c].applied = 1 =>
                      /\ cl[c].pc = "idle" /\ cl[c].eh.pc = "done"
                      /\ ret.status = "err" => ret.err = ErrNoRows(cl[c].eh.calls))
    /\ [][\A c \in Callers :
             (cl'[c] # cl[c] /\ cl'[c].op = "value") =>
                /\ gauges' = gauges /\ counters' = counters
                /\ gLog' = gLog /\ cLog' = cLog]_vars

\* with retrying enabled, a read of an absent counter failed once with a
\* connection exception, was retried, and the not-found answer ended it
C16_Witness ==
    /\ cfg.retryCount > 0
    /\ cl["c1"].op = "value" /\ cl["c1"].pc = "idle"
    /\ cl["c1"].arg[1].mtype = "counter"
    /\ cl["c1"].eh.calls = 2 /\ cl["c1"].eh.slept = <<1>>
    /\ cl["c1"].ret.status = "err" /\ cl["c1"].ret.err = ErrNoRows(2)

\* the row of name n is the same in tb and tb2
SameRow(tb, tb2, n) ==
    /\ (n \in DOMAIN tb) <=> (n \in DOMAIN tb2)
    /\ n \in DOMAIN tb => tb2[n] = tb[n]

\* the statements of the running call of caller c
StmtsOf(c) == IF cl[c].op = "update" THEN cl[c].arg ELSE cl[c].stmts

\* caller c is in an update and the step commits its statement(s)
CommitsBy(c) ==
    /\ cl[c].op \in {"update", "updates"}
    /\ cl'[c].applied > cl[c].applied

\* C18: a step in which the backend commits an UpdateByMetrics or the batch
\* of an Updates changes the rows its statements name and no other: a
\* counter named by a counter statement grows by the deltas written to it
\* (from 0 when absent), a gauge named by a gauge statement takes the value
\* written last, and every other counter and every other gauge, the one of
\* the same name included, keeps its row; each relation holds one value per
\* name; and no other step changes a row.
C18_SeparateNamespaces ==
    [][/\ \A c \in Callers :
            CommitsBy(c) =>
               \A n \in Names :
                  LET cw == written(StmtsOf(c), n, "counter")
                      gw == written(StmtsOf(c), n, "gauge")
                  IN
                  /\ IF cw = <<>> THEN SameRow(counters, counters', n)
                     ELSE /\ n \in DOMAIN counters'
                          /\ counters'[n] = SumSeq(cw) +
                                (IF n \in DOMAIN counters THEN counters[n] ELSE 0)
                  /\ IF gw = <<>> THEN SameRow(gauges, gauges', n)
                     ELSE /\ n \in DOMAIN gauges'
                          /\ gauges'[n] = gw[Len(gw)]
       /\ (\A c \in Callers : ~CommitsBy(c)) =>
              (gauges' = gauges /\ counters' = counters)
       /\ DOMAIN counters' \subseteq Names /\ DOMAIN gauges' \subseteq Names]_vars

\* counter a and gauge a exist side by side with different values, after a
\* batch that wrote both and an update of the counter alone
C18_Witness ==
    /\ "a" \in DOMAIN counters /\ "a" \in DOMAIN gauges
    /\ counters["a"] = 2 /\ gauges["a"] = 1
    /\ cl["c1"].op = "update" /\ cl["c1"].ret.status = "ok"
    /\ cl["c1"].arg[1].mtype = "counter" /\ cl["c1"].applied = 1

\* caller c has returned without error from a call that updates a counter
CounterDone(c) ==
    /\ cl[c].pc = "idle" /\ cl[c].ret.status = "ok"
    /\ \/ cl[c].op = "update" /\ cl[c].arg[1].mtype = "counter"
       \/ cl[c].op = "updates" /\ \E n \in Names : written(cl[c].stmts, n, "counter") # <<>>

\* C19: with retryCount > 0, a counter update that returned without error,
\* through UpdateByMetrics or in the batch of Updates, was committed by the
\* backend exactly once.
C19_ExactlyOnce ==
    \A c \in Callers :
       (cfg.retryCount > 0 /\ CounterDone(c)) => cl[c].applied = 1

(***************************************************************************)
(* Properties of NewDBStorage (SpecSchema).                                *)
(***************************************************************************)
\* the relations whose CREATE statement the construction has sent
IssuedSet == {build.issued[i] : i \in 1..Len(build.issued)}

\* C17: NewDBStorage sends the CREATE statement of a relation at most once
\* and never for a relation that existed when it was called; it returns the
\* store exactly when none of its backend calls failed, and then both
\* relations exist and the relations it created are those that were missing
\* (both, on a backend that had neither; none, on a backend that had both);
\* when an existence check or a creation (or the Begin or the Commit around
\* them) fails it returns an error and no store; a relation that exists
\* stays.
C17_SchemaIdempotent ==
    /\ [](/\ IssuedSet \cap build.had = {}
          /\ Len(build.issued) = Cardinality(IssuedSet)
          /\ build.ret = "ok" =>
                /\ build.failed = "none" /\ build.pc = "idle"
                /\ tables = Relations
                /\ IssuedSet = Relations \ build.had
          /\ build.failed # "none" => (build.ret = "err" /\ build.pc = "idle")
          /\ (build.pc = "idle" /\ build.n > 0 /\ build.failed = "none") =>
                build.ret = "ok")
    /\ [][tables \subseteq tables']_vars

\* the first construction created both relations, the second one found them
\* and succeeded without a CREATE
C17_Witness ==
    /\ build.n = 2 /\ build.pc = "idle" /\ build.ret = "ok"
    /\ build.prev = <<"gauges", "counters">>
    /\ build.had = Relations /\ build.issued = <<>>
    /\ tables = Relations

(***************************************************************************)
(* Properties of main of the single-threaded agent (SpecMain).             *)
(***************************************************************************)
\* C20: for all positive pollInterval and reportInterval, and as long as no
\* push has failed, timeToPush never exceeds reportInterval (so that after
\* each reset it comes to equal reportInterval again and a report is pushed
\* again).
C20_ReportsForever ==
    (pollInterval > 0 /\ reportInterval > 0 /\ mainPc # "panic") =>
        timeToPush <= reportInterval

====
